---- MODULE Spec2Model ----
(***************************************************************************)
(* Occurrence algebra of XSD particles and model groups                    *)
(* (xmlschema/validators/particles.py): ParticleMixin and ModelGroup.      *)
(*                                                                         *)
(* A particle is a record [model, min_occurs, max_occurs, items].  A leaf  *)
(* particle (an element or a wildcard) has model "element" and no items;   *)
(* a ModelGroup has model "sequence", "choice" or "all" and the sequence   *)
(* of its children in items (ModelGroup._group).                           *)
(***************************************************************************)
EXTENDS Integers, Sequences, FiniteSets, TLC

VARIABLES
    particle,   \* SpecParticle: the particle under construction
    elem,       \* SpecParticle: the attributes given to _parse_particle
    outcome,    \* SpecParticle: "new", "ok" or the exception raised
    self,       \* SpecRestrict / SpecEffective: the receiver of the query
    other,      \* SpecRestrict: the argument of the query
    ret,        \* SpecRestrict / SpecEffective: the last query and its result
    root,       \* SpecPath: the model group get_subgroups is called on
    item,       \* SpecPath: the identity of the particle searched
    pc,         \* SpecPath: position in get_subgroups and in its caller
    group,      \* SpecPath: get_subgroups' local `group` (its path in root)
    children,   \* SpecPath: get_subgroups' local `children` (items consumed)
    subgroups,  \* SpecPath: get_subgroups' explicit stack
    steps,      \* SpecPath: iterations of get_subgroups' loop so far
    result      \* SpecPath: what the call returned or raised

vars == <<particle, elem, outcome, self, other, ret,
          root, item, pc, group, children, subgroups, steps, result>>

particleVars == <<particle, elem, outcome>>
queryVars == <<self, other, ret>>
pathVars == <<root, item, pc, group, children, subgroups, steps, result>>

-----------------------------------------------------------------------------
(* Values *)

\* Python's None as the value of an Optional[int] max_occurs: 'unbounded'.
None == -99

\* A TypeError that escapes a property (int * None at lines 273 and 282).
TypeError == -98

Models == {"sequence", "choice", "all"}

Particle(model, mn, mx, its) ==
    [model |-> model, min_occurs |-> mn, max_occurs |-> mx, items |-> its]

Leaf(mn, mx) == Particle("element", mn, mx, <<>>)

\* isinstance(p, ModelGroup)
IsGroup(p) == p.model \in Models

\* len(self) of a ModelGroup
len(g) == Len(g.items)

RECURSIVE SeqSum(_)
SeqSum(s) == IF s = <<>> THEN 0 ELSE Head(s) + SeqSum(Tail(s))

SetMax(S) == CHOOSE x \in S : \A y \in S : y <= x
SetMin(S) == CHOOSE x \in S : \A y \in S : x <= y

Range(s) == {s[i] : i \in 1..Len(s)}

\* Python's max() over a non-empty iterable of Optional[int]: a single value
\* is returned uncompared, also when it is None; with two or more values a
\* None among them is compared with an int and raises TypeError.
PyMax(s) ==
    IF Len(s) = 1 THEN s[1]
    ELSE IF None \in Range(s) THEN TypeError
    ELSE SetMax(Range(s))

\* Python's sum() over an iterable of Optional[int]: 0 + None raises TypeError.
PySum(s) == IF None \in Range(s) THEN TypeError ELSE SeqSum(s)

-----------------------------------------------------------------------------
(* ParticleMixin *)

\* The class attributes min_occurs = 1, max_occurs = 1.
ClassDefaults == Leaf(1, 1)

\* ParticleMixin.__init__(min_occurs, max_occurs): two assignments.
ParticleInit(p, mn, mx) == [p EXCEPT !.min_occurs = mn, !.max_occurs = mx]

\* ParticleMixin.is_emptiable / is_empty
LeafIsEmptiable(p) == p.min_occurs = 0

\* has_occurs_restriction with the test of max_occurs == 0 moved first.
ParticleHasOccursRestriction_EmptyFirst(s, o) ==
    IF s.max_occurs = 0 THEN TRUE
    ELSE IF o.max_occurs = None THEN TRUE
    ELSE IF s.min_occurs < o.min_occurs THEN FALSE
    ELSE IF s.max_occurs = None THEN FALSE
    ELSE s.max_occurs <= o.max_occurs

\* ParticleMixin.has_occurs_restriction(self, other)
ParticleHasOccursRestriction(s, o) ==
    IF s.min_occurs < o.min_occurs THEN FALSE
    ELSE IF s.max_occurs = 0 THEN TRUE
    ELSE IF o.max_occurs = None THEN TRUE
    ELSE IF s.max_occurs = None THEN FALSE
    ELSE s.max_occurs <= o.max_occurs

\* Attribute values are strings, modelled as sequences of characters.
Digits == {"0", "1", "2", "3", "4", "5", "6", "7", "8", "9"}

DigitVal(c) ==
    CASE c = "0" -> 0 [] c = "1" -> 1 [] c = "2" -> 2 [] c = "3" -> 3
      [] c = "4" -> 4 [] c = "5" -> 5 [] c = "6" -> 6 [] c = "7" -> 7
      [] c = "8" -> 8 [] c = "9" -> 9

RECURSIVE DigitsVal(_, _)
DigitsVal(s, acc) ==
    IF s = <<>> THEN acc ELSE DigitsVal(Tail(s), 10 * acc + DigitVal(Head(s)))

RECURSIVE Strip(_)
Strip(s) ==
    IF s # <<>> /\ Head(s) = " " THEN Strip(Tail(s))
    ELSE IF s # <<>> /\ s[Len(s)] = " " THEN Strip(SubSeq(s, 1, Len(s) - 1))
    ELSE s

\* int(str): surrounding blanks, an optional sign, one or more digits.
\* The result is [ok |-> TRUE, val |-> n], or ok = FALSE for ValueError.
PyInt(str) ==
    LET s == Strip(str)
        signed == s # <<>> /\ Head(s) \in {"+", "-"}
        d == IF signed THEN Tail(s) ELSE s
    IN  IF d = <<>> \/ \E i \in 1..Len(d) : d[i] \notin Digits
        THEN [ok |-> FALSE, val |-> 0]
        ELSE [ok |-> TRUE,
              val |-> IF signed /\ Head(s) = "-" THEN 0 - DigitsVal(d, 0)
                      ELSE DigitsVal(d, 0)]

Unbounded == <<"u", "n", "b", "o", "u", "n", "d", "e", "d">>

\* ParticleMixin._parse_particle(elem) with the base class's parse_error,
\* which raises XMLSchemaValueError.  The result is the particle as the call
\* leaves it and whether the call returned ("ok") or raised.
ParseParticle(p, attrib) ==
    LET hasMin == "minOccurs" \in DOMAIN attrib
        mn == IF hasMin THEN PyInt(attrib["minOccurs"]) ELSE [ok |-> TRUE, val |-> 0]
        raised1 == hasMin /\ (~mn.ok \/ mn.val < 0)
        p1 == IF hasMin /\ ~raised1 THEN [p EXCEPT !.min_occurs = mn.val] ELSE p
        hasMax == "maxOccurs" \in DOMAIN attrib
        mx == IF hasMax /\ attrib["maxOccurs"] # Unbounded
              THEN PyInt(attrib["maxOccurs"]) ELSE [ok |-> TRUE, val |-> 0]
    IN  IF raised1 THEN [p |-> p, out |-> "XMLSchemaValueError"]
        ELSE IF ~hasMax
             THEN [p |-> p1,
                   out |-> IF p1.min_occurs > 1 THEN "XMLSchemaValueError" ELSE "ok"]
        ELSE IF attrib["maxOccurs"] = Unbounded
             THEN [p |-> [p1 EXCEPT !.max_occurs = None], out |-> "ok"]
        ELSE IF ~mx.ok THEN [p |-> p1, out |-> "XMLSchemaValueError"]
        ELSE [p |-> [p1 EXCEPT !.max_occurs = mx.val],
              out |-> IF p1.min_occurs > mx.val THEN "XMLSchemaValueError" ELSE "ok"]

-----------------------------------------------------------------------------
(* ModelGroup *)

\* limits.MAX_MODEL_DEPTH, the configured maximum nesting depth.
MAX_MODEL_DEPTH == 2

\* XMLSchemaModelDepthError escaping a property that consumes iter_model().
DepthError == -97

\* ModelGroup.is_pointless(self, parent)
is_pointless(g, parent) ==
    IF len(g) = 0 THEN TRUE
    ELSE IF g.min_occurs # 1 \/ g.max_occurs # 1 THEN FALSE
    ELSE IF len(g) = 1 THEN TRUE
    ELSE IF g.model = "sequence" /\ parent.model # "sequence" THEN FALSE
    ELSE IF g.model = "choice" /\ parent.model # "choice" THEN FALSE
    ELSE TRUE

\* ParticleMixin.is_emptiable for a leaf, ModelGroup.is_emptiable for a group
RECURSIVE is_emptiable(_)
is_emptiable(p) ==
    IF ~IsGroup(p) THEN LeafIsEmptiable(p)
    ELSE IF p.model = "choice"
    THEN p.min_occurs = 0 \/ len(p) = 0
            \/ \E i \in 1..len(p) : is_emptiable(p.items[i])
    ELSE p.min_occurs = 0 \/ len(p) = 0
            \/ \A i \in 1..len(p) : is_emptiable(p.items[i])

\* ModelGroup.iter_model(depth), consumed to its end: the particles yielded,
\* and whether the generator then raised XMLSchemaModelDepthError.
RECURSIVE iter_model(_, _)
RECURSIVE IterModelItems(_, _, _)
iter_model(g, depth) ==
    IF depth > MAX_MODEL_DEPTH THEN [items |-> <<>>, err |-> TRUE]
    ELSE IterModelItems(g, g.items, depth)

\* The loop `for item in self` of iter_model over the remaining items.
IterModelItems(g, its, depth) ==
    IF its = <<>> THEN [items |-> <<>>, err |-> FALSE]
    ELSE LET h == Head(its)
             sub == IF IsGroup(h) /\ is_pointless(h, g)
                    THEN iter_model(h, depth + 1)
                    ELSE [items |-> <<h>>, err |-> FALSE]
         IN  IF sub.err THEN sub
             ELSE LET rest == IterModelItems(g, Tail(its), depth)
                  IN  [items |-> sub.items \o rest.items, err |-> rest.err]

\* ModelGroup.iter_elements(depth), consumed to its end.
RECURSIVE iter_elements(_, _)
RECURSIVE IterElementsItems(_, _)
iter_elements(g, depth) ==
    IF depth > MAX_MODEL_DEPTH THEN [items |-> <<>>, err |-> TRUE]
    ELSE IF g.max_occurs # 0 THEN IterElementsItems(g.items, depth)
    ELSE [items |-> <<>>, err |-> FALSE]

IterElementsItems(its, depth) ==
    IF its = <<>> THEN [items |-> <<>>, err |-> FALSE]
    ELSE LET h == Head(its)
             sub == IF IsGroup(h) THEN iter_elements(h, depth + 1)
                    ELSE [items |-> <<h>>, err |-> FALSE]
         IN  IF sub.err THEN sub
             ELSE LET rest == IterElementsItems(Tail(its), depth)
                  IN  [items |-> sub.items \o rest.items, err |-> rest.err]

\* The first index of vals whose value is in S, or 0.
FirstIn(vals, S) ==
    IF \E i \in 1..Len(vals) : vals[i] \in S
    THEN SetMin({i \in 1..Len(vals) : vals[i] \in S})
    ELSE 0

\* ParticleMixin.effective_min_occurs for a leaf, ModelGroup's for a group.
\* any() and all() stop at the first deciding item, before a later raise.
RECURSIVE effective_min_occurs(_)
effective_min_occurs(p) ==
    IF ~IsGroup(p) THEN p.min_occurs
    ELSE IF p.min_occurs = 0 \/ len(p) = 0 THEN 0
    ELSE LET im == iter_model(p, 0)
             vals == [i \in 1..Len(im.items) |-> effective_min_occurs(im.items[i])]
             nonzero == {v \in Range(vals) : v # 0} \cup {DepthError}
             stop == IF p.model = "choice" THEN FirstIn(vals, {0, DepthError})
                     ELSE FirstIn(vals, nonzero)
         IN  IF stop # 0 /\ vals[stop] = DepthError THEN DepthError
             ELSE IF p.model = "choice"
             THEN IF stop # 0 THEN 0
                  ELSE IF im.err THEN DepthError ELSE p.min_occurs
             ELSE IF stop # 0 THEN p.min_occurs
                  ELSE IF im.err THEN DepthError ELSE 0

\* The choice branch of effective_max_occurs over the effective items'
\* effective_max_occurs: max() in the try, the product in its else clause.
ChoiceEffectiveMax(p, effvals) ==
    LET value == PyMax(effvals)
    IN  IF value = TypeError THEN None
        ELSE IF value = None THEN TypeError
        ELSE p.max_occurs * value

\* The sequence/all branch scaling by the greatest effective maximum also
\* when two or more effective items are not emptiable.
SequenceEffectiveMax_AlwaysScaled(p, effvals, effmins) ==
    LET not_emptiable_items ==
            SelectSeq([k \in 1..Len(effvals) |-> k], LAMBDA k : effmins[k] # 0)
    IN  IF Len(not_emptiable_items) # 1 THEN ChoiceEffectiveMax(p, effvals)
        ELSE LET value == effvals[not_emptiable_items[1]]
             IN  IF value = None THEN None ELSE p.max_occurs * value

\* The sequence/all branch of effective_max_occurs over the effective items'
\* effective_max_occurs and effective_min_occurs.
SequenceEffectiveMax(p, effvals, effmins) ==
    LET not_emptiable_items ==
            SelectSeq([k \in 1..Len(effvals) |-> k], LAMBDA k : effmins[k] # 0)
    IN  IF not_emptiable_items = <<>> THEN ChoiceEffectiveMax(p, effvals)
        ELSE IF Len(not_emptiable_items) > 1 THEN p.max_occurs
        ELSE LET value == effvals[not_emptiable_items[1]]
             IN  IF value = None THEN None ELSE p.max_occurs * value

\* ParticleMixin.effective_max_occurs for a leaf, ModelGroup's for a group.
\* The result is a number, None, or the exception that escapes.
RECURSIVE effective_max_occurs(_)
effective_max_occurs(p) ==
    IF ~IsGroup(p) THEN p.max_occurs
    ELSE IF p.max_occurs = 0 \/ len(p) = 0 THEN 0
    ELSE LET im == iter_model(p, 0)
             vals == [i \in 1..Len(im.items) |-> effective_max_occurs(im.items[i])]
             raised == FirstIn(vals, {TypeError, DepthError})
             effective_items ==
                 SelectSeq([i \in 1..Len(vals) |-> i], LAMBDA i : vals[i] # 0)
             effvals == [k \in 1..Len(effective_items) |-> vals[effective_items[k]]]
             effmins == [k \in 1..Len(effective_items) |->
                            effective_min_occurs(im.items[effective_items[k]])]
         IN  IF raised # 0 THEN vals[raised]
             ELSE IF im.err THEN DepthError
             ELSE IF effective_items = <<>> THEN 0
             ELSE IF p.max_occurs = None THEN None
             ELSE IF p.model = "choice" THEN ChoiceEffectiveMax(p, effvals)
             ELSE IF DepthError \in Range(effmins) THEN DepthError
             ELSE SequenceEffectiveMax(p, effvals, effmins)

\* The maximum contribution scaled by the group's min_occurs.
MaxContributionFits_MinOccurs(s, value, o) ==
    s.min_occurs * value <= o.max_occurs

\* The last comparison of ModelGroup.has_occurs_restriction: the group's
\* maximum contribution against the leaf's maximum.
MaxContributionFits(s, value, o) ==
    s.max_occurs * value <= o.max_occurs

\* ModelGroup.has_occurs_restriction(self, other); a leaf uses ParticleMixin's.
\* The children's min_occurs are integers; their max_occurs may be None.
GroupHasOccursRestriction(s, o) ==
    LET mins == [i \in 1..len(s) |-> s.items[i].min_occurs]
        maxs == [i \in 1..len(s) |-> s.items[i].max_occurs]
    IN  IF len(s) = 0 THEN TRUE
        ELSE IF IsGroup(o) THEN ParticleHasOccursRestriction(s, o)
        ELSE IF s.max_occurs = None \/ None \in Range(maxs)
        THEN IF o.max_occurs # None THEN FALSE
             ELSE IF s.model = "choice"
             THEN s.min_occurs * SetMin(Range(mins)) >= o.min_occurs
             ELSE s.min_occurs * SeqSum(mins) >= o.min_occurs
        ELSE IF s.model = "choice"
        THEN IF s.min_occurs * SetMin(Range(mins)) < o.min_occurs THEN FALSE
             ELSE IF o.max_occurs = None THEN TRUE
             ELSE LET value == PyMax(maxs)
                  IN  IF value = TypeError THEN FALSE
                      ELSE MaxContributionFits(s, value, o)
        ELSE IF s.min_occurs * SeqSum(mins) < o.min_occurs THEN FALSE
             ELSE IF o.max_occurs = None THEN TRUE
             ELSE LET value == PySum(maxs)
                  IN  IF value = TypeError THEN FALSE
                      ELSE MaxContributionFits(s, value, o)

\* self.has_occurs_restriction(other), dispatched on the class of self.
has_occurs_restriction(s, o) ==
    IF IsGroup(s) THEN GroupHasOccursRestriction(s, o)
    ELSE ParticleHasOccursRestriction(s, o)

-----------------------------------------------------------------------------
(* Bounds and input sets *)

\* Occurrence values are drawn from 0..MaxOccurs, and None for max_occurs.
MaxOccurs == 2

\* A group has at most MaxItems children.
MaxItems == 2

Occurs == 0..MaxOccurs

\* The occurrence ranges _parse_particle accepts.
ValidRanges ==
    {r \in Occurs \X (Occurs \cup {None}) : r[2] = None \/ r[1] <= r[2]}

\* Arguments of ParticleMixin.__init__: any integers, None for max_occurs.
InitArgs == (-1..MaxOccurs) \X ((-1..MaxOccurs) \cup {None})

AttrStrings ==
    {<<"0">>, <<"1">>, <<"2">>, <<"3">>, <<"-", "1">>, <<"+", "2">>,
     <<" ", "1">>, <<"1", "0">>, <<"x">>, <<>>, Unbounded}

Elements ==
    UNION {[D -> AttrStrings] : D \in SUBSET {"minOccurs", "maxOccurs"}}

NoElem == <<>>
NoParticle == Leaf(0, 0)
NoRet == [op |-> "none", val |-> 0]
NoItem == [in |-> FALSE, path |-> <<>>, obj |-> NoParticle]
NoResult == [op |-> "none", exc |-> "none", chain |-> <<>>, value |-> 0]

-----------------------------------------------------------------------------
(* SpecParticle: constructing a particle *)

IdleQuery == self = NoParticle /\ other = NoParticle /\ ret = NoRet
IdlePath ==
    /\ root = NoParticle /\ item = NoItem /\ pc = "idle" /\ group = <<>>
    /\ children = 0 /\ subgroups = <<>> /\ steps = 0 /\ result = NoResult

InitParticle ==
    /\ particle = ClassDefaults
    /\ elem = NoElem
    /\ outcome = "new"
    /\ IdleQuery /\ IdlePath

\* ParticleMixin(min_occurs, max_occurs)
Construct ==
    /\ outcome = "new"
    /\ \E a \in InitArgs :
         /\ particle' = ParticleInit(particle, a[1], a[2])
         /\ outcome' = "ok"
         /\ elem' = [init |-> a]
    /\ UNCHANGED <<queryVars, pathVars>>

\* particle._parse_particle(elem) on a particle holding the class defaults
DoParseParticle ==
    /\ outcome = "new"
    /\ \E attrib \in Elements :
         LET r == ParseParticle(particle, attrib)
         IN  /\ particle' = r.p
             /\ outcome' = r.out
             /\ elem' = [attrib |-> attrib]
    /\ UNCHANGED <<queryVars, pathVars>>

NextParticle == Construct \/ DoParseParticle

SpecParticle == InitParticle /\ [][NextParticle]_vars

-----------------------------------------------------------------------------
(* SpecRestrict: occurrence restriction and pointlessness of one particle *)

Leaves == {Leaf(r[1], r[2]) : r \in ValidRanges}

\* self is a particle with model m and range r whose children are the
\* sequences of at most MaxItems members of S; a leaf has no children.
DrawParticle(p, ms, S) ==
    \E m \in ms, r \in ValidRanges, k \in 0..MaxItems :
        /\ m = "element" => k = 0
        /\ \E its \in [1..k -> S] : p = Particle(m, r[1], r[2], its)

\* The groups a particle is compared with.  has_occurs_restriction reads only
\* the range of `other`, is_pointless only the model of `parent`.
OtherGroups ==
    {Particle(m, r[1], r[2], <<Leaf(1, 1)>>) : m \in Models, r \in ValidRanges}

IdleParticle == particle = ClassDefaults /\ elem = NoElem /\ outcome = "new"

InitRestrict ==
    /\ DrawParticle(self, Models \cup {"element"}, Leaves)
    /\ other = NoParticle
    /\ ret = NoRet
    /\ IdleParticle /\ IdlePath

\* self.has_occurs_restriction(other)
HasOccursRestriction ==
    /\ ret.op = "none"
    /\ \E o \in Leaves \cup {g \in OtherGroups : g.model = "sequence"} :
         /\ other' = o
         /\ ret' = [op |-> "has_occurs_restriction",
                    val |-> has_occurs_restriction(self, o)]
    /\ UNCHANGED <<self, particleVars, pathVars>>

\* self.is_pointless(parent=other)
IsPointless ==
    /\ ret.op = "none"
    /\ IsGroup(self)
    /\ \E parent \in {g \in OtherGroups : g.min_occurs = 1 /\ g.max_occurs = 1} :
         /\ other' = parent
         /\ ret' = [op |-> "is_pointless", val |-> is_pointless(self, parent)]
    /\ UNCHANGED <<self, particleVars, pathVars>>

NextRestrict == HasOccursRestriction \/ IsPointless

SpecRestrict == InitRestrict /\ [][NextRestrict]_vars

-----------------------------------------------------------------------------
(* SpecEffective: the effective occurrence range of a model group *)

\* Nested groups: an empty group, groups of two leaves that occur once or
\* MaxOccurs times, and groups of a single unbounded leaf that occur once.
InnerGroups ==
    {Particle("sequence", 1, 1, <<>>)} \cup
    {Particle(m, n, n, <<Leaf(0, 1), Leaf(1, MaxOccurs)>>) :
        m \in Models, n \in {1, MaxOccurs}} \cup
    {Particle(m, 1, 1, <<Leaf(1, None)>>) : m \in {"sequence", "choice"}}

InitEffective ==
    /\ DrawParticle(self, Models, Leaves \cup InnerGroups)
    /\ other = NoParticle
    /\ ret = NoRet
    /\ IdleParticle /\ IdlePath

\* self.effective_min_occurs
EffectiveMinOccurs ==
    /\ ret.op = "none"
    /\ ret' = [op |-> "effective_min_occurs", val |-> effective_min_occurs(self)]
    /\ UNCHANGED <<self, other, particleVars, pathVars>>

\* self.effective_max_occurs
EffectiveMaxOccurs ==
    /\ ret.op = "none"
    /\ ret' = [op |-> "effective_max_occurs", val |-> effective_max_occurs(self)]
    /\ UNCHANGED <<self, other, particleVars, pathVars>>

\* self.is_emptiable()
IsEmptiable ==
    /\ ret.op = "none"
    /\ ret' = [op |-> "is_emptiable", val |-> is_emptiable(self)]
    /\ UNCHANGED <<self, other, particleVars, pathVars>>

NextEffective == EffectiveMinOccurs \/ EffectiveMaxOccurs \/ IsEmptiable

SpecEffective == InitEffective /\ [][NextEffective]_vars

-----------------------------------------------------------------------------
(* SpecPath: traversals and path resolution in a nested model *)

\* A particle of the tree is identified by its path: the indexes of the
\* children that lead to it from the root, <<>> for the root itself.
RECURSIVE NodeAt(_, _)
NodeAt(t, path) ==
    IF path = <<>> THEN t ELSE NodeAt(t.items[Head(path)], Tail(path))

RECURSIVE NodePaths(_)
NodePaths(t) ==
    {<<>>} \cup UNION {{<<i>> \o q : q \in NodePaths(t.items[i])} : i \in 1..len(t)}

\* The groups of the tree nest at most MaxDepth deep below the root.
MaxDepth == 4

\* The groups a chain is made of, before their nested group is added.
LevelKinds ==
    {Particle("sequence", 1, 1, <<>>),
     Particle("sequence", MaxOccurs, MaxOccurs, <<Leaf(MaxOccurs, None)>>),
     Particle("choice", 1, 1, <<Leaf(1, 1)>>),
     Particle("choice", MaxOccurs, None, <<>>)}

\* The chain of the groups ks, each the last child of the one before; the
\* last child of the deepest group is a leaf.
RECURSIVE Chain(_)
Chain(ks) ==
    LET k == Head(ks)
        inner == IF Len(ks) = 1 THEN Leaf(1, 1) ELSE Chain(Tail(ks))
    IN  [k EXCEPT !.items = Append(k.items, inner)]

\* The deepest nesting of a group below t, t being at depth 0.
RECURSIVE Depth(_)
Depth(t) ==
    LET sub == {i \in 1..len(t) : IsGroup(t.items[i])}
    IN  IF sub = {} THEN 0 ELSE 1 + SetMax({Depth(t.items[i]) : i \in sub})

InitPath ==
    /\ \E d \in 0..MaxDepth : \E ks \in [1..(d + 1) -> LevelKinds] : root = Chain(ks)
    /\ item = NoItem /\ pc = "idle" /\ group = <<>> /\ children = 0
    /\ subgroups = <<>> /\ steps = 0 /\ result = NoResult
    /\ IdleParticle /\ IdleQuery

\* list(root.iter_model()): the generator consumed to its end
IterModel ==
    /\ pc = "idle"
    /\ LET r == iter_model(root, 0)
       IN  result' = [op |-> "iter_model",
                      exc |-> IF r.err THEN "XMLSchemaModelDepthError" ELSE "none",
                      chain |-> <<>>, value |-> Len(r.items)]
    /\ pc' = "done"
    /\ UNCHANGED <<root, item, group, children, subgroups, steps,
                   particleVars, queryVars>>

\* list(root.iter_elements()): the generator consumed to its end
IterElements ==
    /\ pc = "idle"
    /\ LET r == iter_elements(root, 0)
       IN  result' = [op |-> "iter_elements",
                      exc |-> IF r.err THEN "XMLSchemaModelDepthError" ELSE "none",
                      chain |-> <<>>, value |-> Len(r.items)]
    /\ pc' = "done"
    /\ UNCHANGED <<root, item, group, children, subgroups, steps,
                   particleVars, queryVars>>

\* root.overall_min_occurs(item) is called: min_occurs = item.min_occurs, then
\* get_subgroups(item) starts with group, children = self, iter(self).
\* item is a particle of the tree, the root itself, or a particle outside it.
CallOverallMinOccurs ==
    /\ pc = "idle"
    /\ \E it \in {[in |-> TRUE, path |-> q, obj |-> NodeAt(root, q)] : q \in NodePaths(root)}
                \cup {[in |-> FALSE, path |-> <<>>, obj |-> Leaf(1, 1)]} :
         item' = it
    /\ result' = [op |-> "overall_min_occurs", exc |-> "none",
                  chain |-> <<>>, value |-> 0]
    /\ group' = <<>> /\ children' = 0 /\ subgroups' = <<>> /\ steps' = 0
    /\ pc' = "get_subgroups"
    /\ UNCHANGED <<root, particleVars, queryVars>>

\* `child is item`
IsItem(path) == item.in /\ path = item.path

HasNext == children < len(NodeAt(root, group))
ChildPath == Append(group, children + 1)
Child == NodeAt(root, ChildPath)

\* The guard checked after the frame is pushed, with >= for >.
StackOverLimit_AfterPush == Len(subgroups) + 1 >= MAX_MODEL_DEPTH

\* len(subgroups) > limits.MAX_MODEL_DEPTH, tested before the frame is pushed
StackOverLimit == Len(subgroups) > MAX_MODEL_DEPTH

\* next(children) yields item: the chain of the groups is returned.
GsFound ==
    /\ pc = "get_subgroups" /\ HasNext /\ IsItem(ChildPath)
    /\ result' = [result EXCEPT
                    !.chain = Append([i \in 1..Len(subgroups) |-> subgroups[i].group],
                                     group)]
    /\ children' = children + 1
    /\ steps' = steps + 1
    /\ pc' = "returned"
    /\ UNCHANGED <<root, item, group, subgroups, particleVars, queryVars>>

\* next(children) yields another group with the stack over the limit.
GsDepthError ==
    /\ pc = "get_subgroups" /\ HasNext /\ ~IsItem(ChildPath) /\ IsGroup(Child)
    /\ StackOverLimit
    /\ result' = [result EXCEPT !.exc = "XMLSchemaModelDepthError"]
    /\ children' = children + 1
    /\ steps' = steps + 1
    /\ pc' = "done"
    /\ UNCHANGED <<root, item, group, subgroups, particleVars, queryVars>>

\* next(children) yields another group: the walk descends into it.
GsDescend ==
    /\ pc = "get_subgroups" /\ HasNext /\ ~IsItem(ChildPath) /\ IsGroup(Child)
    /\ ~StackOverLimit
    /\ subgroups' = Append(subgroups, [group |-> group, children |-> children + 1])
    /\ group' = ChildPath
    /\ children' = 0
    /\ steps' = steps + 1
    /\ UNCHANGED <<root, item, pc, result, particleVars, queryVars>>

\* next(children) yields another leaf: the loop goes on.
GsSkip ==
    /\ pc = "get_subgroups" /\ HasNext /\ ~IsItem(ChildPath) /\ ~IsGroup(Child)
    /\ children' = children + 1
    /\ steps' = steps + 1
    /\ UNCHANGED <<root, item, pc, group, subgroups, result, particleVars, queryVars>>

\* StopIteration with a frame on the stack: the walk resumes in the parent.
GsPop ==
    /\ pc = "get_subgroups" /\ ~HasNext /\ subgroups # <<>>
    /\ group' = subgroups[Len(subgroups)].group
    /\ children' = subgroups[Len(subgroups)].children
    /\ subgroups' = SubSeq(subgroups, 1, Len(subgroups) - 1)
    /\ steps' = steps + 1
    /\ UNCHANGED <<root, item, pc, result, particleVars, queryVars>>

\* StopIteration with an empty stack: item is not a particle of the model.
GsNotMember ==
    /\ pc = "get_subgroups" /\ ~HasNext /\ subgroups = <<>>
    /\ result' = [result EXCEPT !.exc = "XMLSchemaModelError"]
    /\ steps' = steps + 1
    /\ pc' = "done"
    /\ UNCHANGED <<root, item, group, children, subgroups, particleVars, queryVars>>

\* The loop returning 0 for every choice, also one with a single child.
RECURSIVE OverallMinLoop_AnyChoice(_, _)
OverallMinLoop_AnyChoice(min_occurs, chain) ==
    IF chain = <<>> THEN min_occurs
    ELSE LET g == NodeAt(root, Head(chain))
         IN  IF g.model = "choice" THEN 0
             ELSE OverallMinLoop_AnyChoice(min_occurs * g.min_occurs, Tail(chain))

\* The loop of overall_min_occurs over the groups get_subgroups returned.
RECURSIVE OverallMinLoop(_, _)
OverallMinLoop(min_occurs, chain) ==
    IF chain = <<>> THEN min_occurs
    ELSE LET g == NodeAt(root, Head(chain))
         IN  IF g.model = "choice" /\ len(g) > 1 THEN 0
             ELSE OverallMinLoop(min_occurs * g.min_occurs, Tail(chain))

\* get_subgroups has returned: overall_min_occurs folds the chain and returns.
OverallMinOccurs ==
    /\ pc = "returned"
    /\ result' = [result EXCEPT
                    !.value = OverallMinLoop(item.obj.min_occurs, result.chain)]
    /\ pc' = "done"
    /\ UNCHANGED <<root, item, group, children, subgroups, steps,
                   particleVars, queryVars>>

NextPath ==
    \/ IterModel \/ IterElements \/ CallOverallMinOccurs
    \/ GsFound \/ GsDepthError \/ GsDescend \/ GsSkip \/ GsPop \/ GsNotMember
    \/ OverallMinOccurs

SpecPath == InitPath /\ [][NextPath]_vars

-----------------------------------------------------------------------------
(* Properties of construction (SpecParticle) *)

\* A valid occurrence range: 0 <= min, and min <= max unless max is unbounded.
ValidRange(mn, mx) == mn >= 0 /\ (mx = None \/ mn <= mx)

\* The range the attributes of an element ask for: an absent attribute leaves
\* the class default 1, 'unbounded' is None, anything else must be an integer.
AskedMin(attrib) ==
    IF "minOccurs" \in DOMAIN attrib THEN PyInt(attrib["minOccurs"])
    ELSE [ok |-> TRUE, val |-> 1]
AskedMax(attrib) ==
    IF "maxOccurs" \notin DOMAIN attrib THEN [ok |-> TRUE, val |-> 1]
    ELSE IF attrib["maxOccurs"] = Unbounded THEN [ok |-> TRUE, val |-> None]
    ELSE PyInt(attrib["maxOccurs"])

\* C1: constructing a particle succeeds iff its occurrence range is valid,
\* through ParticleMixin.__init__ and through _parse_particle alike; every
\* other range is rejected with a validation error at construction time.
C1_ConstructionSucceedsIffValid ==
    /\ (outcome # "new" /\ "init" \in DOMAIN elem) =>
          (outcome = "ok" <=> ValidRange(elem.init[1], elem.init[2]))
    /\ (outcome # "new" /\ "attrib" \in DOMAIN elem) =>
          (outcome = "ok" <=>
              /\ AskedMin(elem.attrib).ok /\ AskedMax(elem.attrib).ok
              /\ ValidRange(AskedMin(elem.attrib).val, AskedMax(elem.attrib).val))

-----------------------------------------------------------------------------
(* Properties of has_occurs_restriction and is_pointless (SpecRestrict) *)

Restricted == ret.op = "has_occurs_restriction"

\* C2 as stated: self.has_occurs_restriction(base) is false whenever
\* self.min_occurs < base.min_occurs, for leaves and groups alike.
C2_FalseBelowBaseMinimum ==
    (Restricted /\ self.min_occurs < other.min_occurs) => ret.val = FALSE

\* C2 as amended: self.has_occurs_restriction(base) is false whenever
\* self.min_occurs < base.min_occurs, provided self is a leaf, or self is a
\* group with children and base is a group; any maxima, finite or unbounded.
C2_FalseBelowBaseMinimum_OwnRange ==
    (/\ Restricted
     /\ self.min_occurs < other.min_occurs
     /\ ~IsGroup(self) \/ (len(self) > 0 /\ IsGroup(other)))
        => ret.val = FALSE

\* A group with children, unbounded itself, is compared with an unbounded
\* group of a greater minimum, and the answer is false.
C2_Witness ==
    /\ Restricted
    /\ IsGroup(self) /\ len(self) > 0 /\ IsGroup(other)
    /\ self.max_occurs = None /\ other.max_occurs = None
    /\ self.min_occurs < other.min_occurs
    /\ ret.val = FALSE

\* C8: a group of two or more children with min_occurs = max_occurs = 1 is
\* pointless iff it is a sequence or a choice of the same kind as its parent;
\* an all group of two or more children is pointless under no parent.
C8_PointlessOnlyForSameKind ==
    (/\ ret.op = "is_pointless"
     /\ len(self) >= 2 /\ self.min_occurs = 1 /\ self.max_occurs = 1)
        => (ret.val <=> (self.model \in {"sequence", "choice"}
                            /\ self.model = other.model))

\* The children of g as the set of their indexes.
Kids(g) == 1..len(g)

\* The minimum a group contributes: min_occurs times the least child minimum
\* for a choice, times the sum of the child minima for a sequence or an all.
MinContribution(g) ==
    IF g.model = "choice"
    THEN g.min_occurs * SetMin({g.items[i].min_occurs : i \in Kids(g)})
    ELSE g.min_occurs * SeqSum([i \in Kids(g) |-> g.items[i].min_occurs])

\* The greatest child maximum for a choice, the sum of the child maxima for
\* a sequence or an all group; all of them finite.
ChildMaxima(g) ==
    IF g.model = "choice"
    THEN SetMax({g.items[i].max_occurs : i \in Kids(g)})
    ELSE SeqSum([i \in Kids(g) |-> g.items[i].max_occurs])

\* A group with children, all maxima finite, compared with a finite leaf.
FiniteGroupAgainstLeaf ==
    /\ Restricted
    /\ IsGroup(self) /\ len(self) > 0 /\ self.max_occurs # None
    /\ \A i \in Kids(self) : self.items[i].max_occurs # None
    /\ ~IsGroup(other) /\ other.max_occurs # None

\* C9 as stated: the result is true iff the minimum contribution is at least
\* other.min_occurs and the maximum contribution, the group's min_occurs
\* times the child maxima, is at most other.max_occurs.
C9_MaxContributionFromMinOccurs ==
    FiniteGroupAgainstLeaf =>
        (ret.val <=> /\ MinContribution(self) >= other.min_occurs
                     /\ self.min_occurs * ChildMaxima(self) <= other.max_occurs)

\* C9 as amended: the maximum contribution is the group's max_occurs times
\* the child maxima (the greatest for a choice, their sum otherwise).
C9_MaxContributionFromMaxOccurs ==
    FiniteGroupAgainstLeaf =>
        (ret.val <=> /\ MinContribution(self) >= other.min_occurs
                     /\ self.max_occurs * ChildMaxima(self) <= other.max_occurs)

\* A group whose minimum and maximum differ is refused for its maximum
\* contribution alone, where min_occurs times the child maxima would fit.
C9_Witness ==
    /\ FiniteGroupAgainstLeaf
    /\ self.min_occurs > 0 /\ self.min_occurs < self.max_occurs
    /\ MinContribution(self) >= other.min_occurs
    /\ self.min_occurs * ChildMaxima(self) <= other.max_occurs
    /\ ret.val = FALSE

-----------------------------------------------------------------------------
(* Properties of the effective occurrence range (SpecEffective) *)

\* The flattened children of self whose effective_max_occurs is not 0.
EffectiveChildren ==
    LET flat == iter_model(self, 0).items
    IN  SelectSeq(flat, LAMBDA e : effective_max_occurs(e) # 0)

EffectiveMaxima == {effective_max_occurs(e) : e \in Range(EffectiveChildren)}

\* The effective children that are not emptiable.
NotEmptiable == SelectSeq(EffectiveChildren, LAMBDA e : effective_min_occurs(e) > 0)

\* effective_max_occurs was asked of a group with children and a finite
\* max_occurs other than 0.
ScaledGroup ==
    /\ ret.op = "effective_max_occurs"
    /\ len(self) > 0
    /\ self.max_occurs \notin {0, None}

\* C3: for a sequence or all group with children, a finite non-zero max_occurs
\* and effective children whose effective maxima are all finite, the effective
\* maximum follows the number k of not-emptiable effective children: k = 0
\* gives max_occurs times the greatest effective maximum, k = 1 max_occurs
\* times that child's effective maximum, k >= 2 the group's own max_occurs.
C3_EffectiveMaxByNotEmptiable ==
    (/\ ScaledGroup
     /\ self.model \in {"sequence", "all"}
     /\ EffectiveChildren # <<>>
     /\ \A v \in EffectiveMaxima : v >= 0)
        => ret.val =
             CASE Len(NotEmptiable) = 0 -> self.max_occurs * SetMax(EffectiveMaxima)
               [] Len(NotEmptiable) = 1 ->
                     self.max_occurs * effective_max_occurs(NotEmptiable[1])
               [] OTHER -> self.max_occurs

\* A sequence or all group repeated more than once with two not-emptiable
\* effective children keeps its own max_occurs, below any scaled value.
C3_Witness ==
    /\ ScaledGroup
    /\ self.model \in {"sequence", "all"}
    /\ self.max_occurs > 1
    /\ EffectiveChildren # <<>>
    /\ \A v \in EffectiveMaxima : v > 1
    /\ Len(NotEmptiable) >= 2
    /\ ret.val = self.max_occurs

\* C4: for a group with children and a finite non-zero max_occurs,
\* effective_max_occurs is unbounded (None), not an error, whenever an
\* effective child it scales by is unbounded: for a choice if any effective
\* child is unbounded, for a sequence or all group without not-emptiable
\* effective children if any effective child is unbounded; for any number of
\* effective children, a single one included.
C4_UnboundedChildGivesUnbounded ==
    (/\ ScaledGroup
     /\ \A v \in EffectiveMaxima : v >= 0 \/ v = None
     /\ None \in EffectiveMaxima
     /\ self.model = "choice" \/ Len(NotEmptiable) = 0)
        => ret.val = None

\* C10: a group is emptiable iff its effective minimum is 0, also when nested
\* groups that are empty or pointless are flattened away by iter_model.
C10_EmptiableIffNoEffectiveMinimum ==
    /\ ret.op = "is_emptiable" => (ret.val <=> effective_min_occurs(self) = 0)
    /\ ret.op = "effective_min_occurs" => (ret.val = 0 <=> is_emptiable(self))

-----------------------------------------------------------------------------
(* Properties of traversal and path resolution (SpecPath) *)

GroupPaths(t) == {q \in NodePaths(t) : IsGroup(NodeAt(t, q))}

\* The ancestors of the particle at path q, from the root to its parent.
Ancestors(q) == {SubSeq(q, 1, k) : k \in 0..(Len(q) - 1)}

\* Every group of the tree is a sequence occurring once with one child, so
\* each nested group is pointless and no group has max_occurs = 0.
NestedOnceThroughout ==
    \A q \in GroupPaths(root) :
        LET g == NodeAt(root, q)
        IN  g.model = "sequence" /\ g.min_occurs = 1 /\ g.max_occurs = 1 /\ len(g) = 1

Searching == result.op = "overall_min_occurs"

\* get_subgroups has returned or raised.
Resolved == Searching /\ pc \in {"returned", "done"}

\* C5: in a tree nested one level deeper than MAX_MODEL_DEPTH, every traversal
\* from the root fails with XMLSchemaModelDepthError: iter_model() and
\* iter_elements() consumed to their end, and get_subgroups(target) for a
\* target inside the deepest group; and get_subgroups does not end with more
\* than MAX_MODEL_DEPTH frames on its stack unless it raised that error.
\* The tree taken is the chain of single-child sequences occurring once.
C5_OneLevelTooDeepRaisesDepthError ==
    (Depth(root) = MAX_MODEL_DEPTH + 1 /\ NestedOnceThroughout) =>
        /\ (pc = "done" /\ result.op \in {"iter_model", "iter_elements"})
              => result.exc = "XMLSchemaModelDepthError"
        /\ (Resolved /\ item.in /\ Len(item.path) = MAX_MODEL_DEPTH + 2)
              => result.exc = "XMLSchemaModelDepthError"
        /\ (Resolved /\ Len(subgroups) > MAX_MODEL_DEPTH)
              => result.exc = "XMLSchemaModelDepthError"

\* The particle searched is no descendant of the root: it lies outside the
\* tree or is the root itself.
NotDescendant == ~item.in \/ item.path = <<>>

\* Every iteration of the loop consumes a child or pops a frame, and the last
\* one raises: the particles below the root, the nested groups, and one.
StepsBound == Cardinality(NodePaths(root)) + Cardinality(GroupPaths(root)) - 1

\* C6: in a tree nested within MAX_MODEL_DEPTH, get_subgroups of a particle
\* that is no descendant of the root (the root itself included) terminates,
\* and with XMLSchemaModelError: it never returns a chain and never raises
\* XMLSchemaModelDepthError.
C6_NotDescendantRaisesModelError ==
    (Searching /\ NotDescendant /\ Depth(root) <= MAX_MODEL_DEPTH) =>
        /\ steps <= StepsBound
        /\ pc = "get_subgroups" => ENABLED NextPath
        /\ pc # "returned"
        /\ result.exc # "XMLSchemaModelDepthError"
        /\ pc = "done" => result.exc = "XMLSchemaModelError"

\* The whole of a tree as deep as the limit allows has been walked in search
\* of a particle outside it, and the membership error raised.
C6_Witness ==
    /\ Searching /\ ~item.in /\ Depth(root) = MAX_MODEL_DEPTH
    /\ pc = "done" /\ result.exc = "XMLSchemaModelError"
    /\ steps = StepsBound

RECURSIVE ProductOfMinima(_)
ProductOfMinima(S) ==
    IF S = {} THEN 1
    ELSE LET q == CHOOSE x \in S : TRUE
         IN  NodeAt(root, q).min_occurs * ProductOfMinima(S \ {q})

\* C7: for a descendant of the root within the depth limit,
\* overall_min_occurs is 0 if a group from the root down to the target's parent
\* is a choice with more than one child, and otherwise the target's min_occurs
\* times the min_occurs of every group on that chain.
C7_OverallMinIsProductOfMinima ==
    (/\ Searching /\ pc = "done"
     /\ ~NotDescendant /\ Depth(root) <= MAX_MODEL_DEPTH)
        => /\ result.exc = "none"
           /\ result.value =
                IF \E q \in Ancestors(item.path) :
                      NodeAt(root, q).model = "choice" /\ len(NodeAt(root, q)) > 1
                THEN 0
                ELSE item.obj.min_occurs * ProductOfMinima(Ancestors(item.path))

\* A leaf two groups deep, one of them a choice with a single child, whose
\* overall minimum is the product of three minima greater than one.
C7_Witness ==
    /\ Searching /\ pc = "done" /\ ~NotDescendant
    /\ Len(item.path) = 2 /\ ~IsGroup(item.obj)
    /\ \E q \in Ancestors(item.path) : NodeAt(root, q).model = "choice"
    /\ \A q \in Ancestors(item.path) : NodeAt(root, q).min_occurs > 1
    /\ item.obj.min_occurs > 1
    /\ result.value = item.obj.min_occurs * ProductOfMinima(Ancestors(item.path))

====
